---- MODULE Spec2Model ----
(***************************************************************************)
(* kitty/shell_integration.py as a state machine.                          *)
(*                                                                         *)
(* Text is a sequence of Unicode code points, a file's content a sequence  *)
(* of bytes, a path a text.  The file system is a function from paths to   *)
(* entries; a path that does not exist is outside its domain.              *)
(*                                                                         *)
(* Three specifications share the definitions below:                       *)
(*   Spec          repeated runs of setup_integration on one rc file;      *)
(*   SpecProc      two processes stepping through setup_integration /      *)
(*                 atomic_write and atomic_symlink, with crashes;          *)
(*   SpecDispatch  calls of setup_shell_integration in one process.        *)
(***************************************************************************)
EXTENDS Integers, Sequences, FiniteSets, TLC

VARIABLES
    fs,        \* path -> entry [type, data, target]
    fs0,       \* the file system the behaviour started from
    env,       \* home, shell_integration_dir, shell of the run (Spec)
    last,      \* Spec: what the latest run of setup_integration did
    runs,      \* Spec: number of runs of setup_integration so far
    procs,     \* SpecProc: per process, its position and locals
    clock,     \* SpecProc: time.monotonic()
    disp       \* SpecDispatch: the dispatcher's state and its observations

vars == <<fs, fs0, env, last, runs, procs, clock, disp>>

(***************************************************************************)
(* Bounds of the model.                                                    *)
(***************************************************************************)
MaxLines == 3      \* lines of the initial rc file
MaxRuns == 2       \* runs of setup_integration in one behaviour
MaxCalls == 3      \* calls of setup_shell_integration in one process
MaxClock == 3      \* readings of the monotonic clock

(***************************************************************************)
(* Text.                                                                   *)
(***************************************************************************)
\* "# BEGIN_KITTY_SHELL_INTEGRATION"
BEGIN_MARKER ==
    <<35, 32, 66, 69, 71, 73, 78, 95, 75, 73, 84, 84, 89, 95, 83, 72, 69, 76,
      76, 95, 73, 78, 84, 69, 71, 82, 65, 84, 73, 79, 78>>

\* "# END_KITTY_SHELL_INTEGRATION"
END_MARKER ==
    <<35, 32, 69, 78, 68, 95, 75, 73, 84, 84, 89, 95, 83, 72, 69, 76, 76, 95,
      73, 78, 84, 69, 71, 82, 65, 84, 73, 79, 78>>

\* The template with the leading newline of the literal dropped.
template_without_leading_newline ==
    BEGIN_MARKER \o <<10>>
    \o <<105, 102, 32, 116, 101, 115, 116, 32, 45, 101, 32>>
    \o <<123, 112, 97, 116, 104, 125>>
    \o <<59, 32, 116, 104, 101, 110, 32, 115, 111, 117, 114, 99, 101, 32>>
    \o <<123, 112, 97, 116, 104, 125>>
    \o <<59, 32, 102, 105>>
    \o <<10>> \o END_MARKER \o <<10>>

\* '''
\* # BEGIN_KITTY_SHELL_INTEGRATION
\* if test -e {path}; then source {path}; fi
\* # END_KITTY_SHELL_INTEGRATION
\* '''
posix_template ==
    <<10>> \o BEGIN_MARKER \o <<10>>
    \o <<105, 102, 32, 116, 101, 115, 116, 32, 45, 101, 32>>           \* "if test -e "
    \o <<123, 112, 97, 116, 104, 125>>                                 \* "{path}"
    \o <<59, 32, 116, 104, 101, 110, 32, 115, 111, 117, 114, 99, 101, 32>> \* "; then source "
    \o <<123, 112, 97, 116, 104, 125>>                                 \* "{path}"
    \o <<59, 32, 102, 105>>                                            \* "; fi"
    \o <<10>> \o END_MARKER \o <<10>>

\* The characters str.isspace() is true of, which str.rstrip() removes.
Whitespace ==
    {9, 10, 11, 12, 13, 28, 29, 30, 31, 32, 133, 160, 5760, 8232, 8233, 8239,
     8287, 12288} \cup (8192..8202)

\* s starts with p at position i (1-based).
HasAt(s, i, p) ==
    /\ i >= 1
    /\ i + Len(p) - 1 <= Len(s)
    /\ \A k \in 1..Len(p) : s[i + k - 1] = p[k]

\* str.startswith
startswith(s, p) == HasAt(s, 1, p)

\* s[i:] with a 1-based i.
Tail_from(s, i) == SubSeq(s, i, Len(s))

\* str.rstrip(): drop the longest suffix of whitespace.
rstrip(s) ==
    SubSeq(s, 1, CHOOSE i \in 0..Len(s) :
                    /\ i = 0 \/ s[i] \notin Whitespace
                    /\ \A j \in (i + 1)..Len(s) : s[j] \in Whitespace)

\* str.encode('utf-8') of one code point (below 65536).
encode_char(c) ==
    IF c < 128 THEN <<c>>
    ELSE IF c < 2048 THEN <<192 + (c \div 64), 128 + (c % 64)>>
    ELSE <<224 + (c \div 4096), 128 + ((c \div 64) % 64), 128 + (c % 64)>>

\* The concatenation of pieces[lo], ..., pieces[hi].
RECURSIVE flatten(_, _, _)
flatten(pieces, lo, hi) ==
    IF lo > hi THEN <<>>
    ELSE IF lo = hi THEN pieces[lo]
    ELSE LET mid == (lo + hi) \div 2
         IN  flatten(pieces, lo, mid) \o flatten(pieces, mid + 1, hi)

\* str.encode('utf-8'); ASCII text is its own encoding.
encode_utf8(s) ==
    IF \A i \in 1..Len(s) : s[i] < 128 THEN s
    ELSE flatten([i \in 1..Len(s) |-> encode_char(s[i])], 1, Len(s))

\* The code point that starts at byte i of well-formed UTF-8, nothing at a
\* continuation byte.
decode_at(b, i) ==
    IF b[i] < 128 THEN <<b[i]>>
    ELSE IF b[i] < 192 THEN <<>>
    ELSE IF b[i] < 224 THEN <<(b[i] - 192) * 64 + (b[i + 1] - 128)>>
    ELSE <<(b[i] - 224) * 4096 + (b[i + 1] - 128) * 64 + (b[i + 2] - 128)>>

\* The text layer of open(path): UTF-8 decoding of well-formed bytes.
decode_utf8(b) ==
    IF \A i \in 1..Len(b) : b[i] < 128 THEN b
    ELSE flatten([i \in 1..Len(b) |-> decode_at(b, i)], 1, Len(b))

\* The text layer of open(path), newline=None: "\r\n" and a lone "\r" are
\* read as "\n".
universal_newlines(s) ==
    IF \A i \in 1..Len(s) : s[i] # 13 THEN s
    ELSE
    flatten([i \in 1..Len(s) |->
                IF s[i] = 13 THEN <<10>>
                ELSE IF s[i] = 10 /\ i > 1 /\ s[i - 1] = 13 THEN <<>>
                ELSE <<s[i]>>], 1, Len(s))

(***************************************************************************)
(* re.sub(r'^# BEGIN_KITTY_SHELL_INTEGRATION.+?^# END_KITTY_SHELL_INTEGRATION', *)
(*        '', rc, flags=re.DOTALL | re.MULTILINE)                          *)
(***************************************************************************)
\* '^' under re.MULTILINE: the start of the string or just after a newline.
at_line_start(s, i) == i = 1 \/ s[i - 1] = 10

Min(S) == CHOOSE x \in S : \A y \in S : x <= y
Max(S) == CHOOSE x \in S : \A y \in S : x >= y

\* Positions at or after pos where '^# BEGIN_KITTY_SHELL_INTEGRATION' matches.
begin_matches(s, pos) ==
    {i \in pos..Len(s) : s[i] = 35 /\ at_line_start(s, i) /\ HasAt(s, i, BEGIN_MARKER)}

\* Positions where '.+?^# END_KITTY_SHELL_INTEGRATION' can end a match that
\* began at i: '.+?' takes at least one character (any, with re.DOTALL).
end_matches(s, i) ==
    {j \in (i + Len(BEGIN_MARKER) + 1)..Len(s) :
        s[j] = 35 /\ at_line_start(s, j) /\ HasAt(s, j, END_MARKER)}

\* The leftmost match at or after pos, taken non-greedily, is removed and the
\* scan resumes after it; text outside the matches is copied.
RECURSIVE sub_from(_, _)
sub_from(s, pos) ==
    LET bs == begin_matches(s, pos)
    IN  IF bs = {} THEN Tail_from(s, pos)
        ELSE LET i  == Min(bs)
                 es == end_matches(s, i)
             IN  IF es = {} THEN Tail_from(s, pos)
                 ELSE SubSeq(s, pos, i - 1)
                      \o sub_from(s, Min(es) + Len(END_MARKER))

re_sub(s) == sub_from(s, 1)

(***************************************************************************)
(* template.format(path=value): every "{path}" becomes value.              *)
(***************************************************************************)
PathField == <<123, 112, 97, 116, 104, 125>>

format(t, value) ==
    flatten([i \in 1..Len(t) |->
                IF t[i] = 123 /\ HasAt(t, i, PathField) THEN value
                ELSE IF \E j \in 1..(Len(PathField) - 1) :
                            i - j >= 1 /\ t[i - j] = 123 /\ HasAt(t, i - j, PathField)
                     THEN <<>>
                ELSE <<t[i]>>], 1, Len(t))

(***************************************************************************)
(* os.path and os.environ.                                                 *)
(***************************************************************************)
\* os.path.join(a, b)
path_join(a, b) ==
    IF Len(b) > 0 /\ b[1] = 47 THEN b
    ELSE IF Len(a) = 0 \/ a[Len(a)] = 47 THEN a \o b
    ELSE a \o <<47>> \o b

\* os.path.basename(p): what follows the last "/".
basename(p) ==
    LET slashes == {i \in 1..Len(p) : p[i] = 47}
    IN  IF slashes = {} THEN p ELSE Tail_from(p, Max(slashes) + 1)

\* os.path.dirname(p): what precedes the last "/" ("/" for an entry of it).
dirname(p) ==
    LET slashes == {i \in 1..Len(p) : p[i] = 47}
    IN  IF slashes = {} THEN <<>>
        ELSE IF Max(slashes) = 1 THEN <<47>>
        ELSE SubSeq(p, 1, Max(slashes) - 1)

\* os.environ.get(name, default)
environ_get(e, name, default) ==
    IF name \in DOMAIN e.environ THEN e.environ[name] ELSE default

(***************************************************************************)
(* The file system.                                                        *)
(***************************************************************************)
File(data) == [type |-> "file", data |-> data, target |-> <<>>]
Link(target) == [type |-> "link", data |-> <<>>, target |-> target]
Dir == [type |-> "dir", data |-> <<>>, target |-> <<>>]

exists(f, p) == p \in DOMAIN f

\* f with path p holding entry e (created or replaced).
put(f, p, e) == [q \in DOMAIN f \cup {p} |-> IF q = p THEN e ELSE f[q]]

\* f without path p.
remove(f, p) == [q \in DOMAIN f \ {p} |-> f[q]]

\* os.path.realpath: follow symlinks; a path that does not exist is itself.
RECURSIVE realpath(_, _)
realpath(f, p) ==
    IF exists(f, p) /\ f[p].type = "link" THEN realpath(f, f[p].target) ELSE p

\* open(path) raises something other than FileNotFoundError: path is a directory.
read_raises(f, p) == exists(f, p) /\ f[p].type = "dir"

\* safe_read: the text of the file, '' when there is no such file
\* (FileNotFoundError is suppressed).
safe_read(f, p) ==
    IF exists(f, p) THEN universal_newlines(decode_utf8(f[p].data)) ELSE <<>>

\* A directory exists at d.
is_dir(f, d) == exists(f, d) /\ f[d].type = "dir"

\* atomic_save cannot create its temporary file: there is no such directory.
atomic_save_raises(f, p) == ~is_dir(f, dirname(p))

\* atomic_save(data, path), start to end: path holds exactly data.
atomic_save(f, data, p) == put(f, p, File(data))

\* The data handed to atomic_save as it is, a str left unencoded.
atomic_write_data_unencoded(data) == data

\* atomic_write: a str is encoded as UTF-8 before it is saved.
atomic_write_data(data) == encode_utf8(data)

\* atomic_write(path, data)
atomic_write(f, p, data) == atomic_save(f, atomic_write_data(data), p)

(***************************************************************************)
(* setup_integration                                                       *)
(***************************************************************************)
HomeToken == <<36, 72, 79, 77, 69, 47>>     \* "$HOME/"
zsh == <<122, 115, 104>>
bash == <<98, 97, 115, 104>>
fish == <<102, 105, 115, 104>>

\* path = os.path.join(shell_integration_dir, f'kitty.{shell_name}'), then
\* the abbreviation of a path under the home directory.
integration_path(e, shell_name) ==
    LET home == e.home \o <<47>>
        path == path_join(e.shell_integration_dir, <<107, 105, 116, 116, 121, 46>> \o shell_name)
    IN  IF startswith(path, home)
        THEN HomeToken \o Tail_from(path, Len(home) + 1)
        ELSE path

\* integration = template.format(path=f'"{path}"')
integration(e, shell_name) ==
    format(posix_template, <<34>> \o integration_path(e, shell_name) \o <<34>>)

\* newrc = re.sub(...); newrc = newrc.rstrip() + '\n\n' + integration
newrc(e, shell_name, rc) ==
    rstrip(re_sub(rc)) \o <<10, 10>> \o integration(e, shell_name)

\* The handlers that catch an exception inside safe_read(p): the missing file.
safe_read_caught(f, p) ==
    IF exists(f, p) THEN {}
    ELSE {[site |-> "safe_read", exc |-> "FileNotFoundError", reraised |-> FALSE]}

\* setup_integration(shell_name, rc_path): the exception it raises ("" for
\* none), the handlers that caught one on the way, whether it calls
\* atomic_write, and the file system it leaves.
setup_integration(f, e, shell_name, rc_path) ==
    LET p  == realpath(f, rc_path)
        rc == safe_read(f, p)
        n  == newrc(e, shell_name, rc)
        c  == safe_read_caught(f, p)
    IN  IF read_raises(f, p)
        THEN [raised |-> "IsADirectoryError", caught |-> c, wrote |-> FALSE, fs |-> f]
        ELSE IF n = rc
        THEN [raised |-> "", caught |-> c, wrote |-> FALSE, fs |-> f]
        ELSE IF atomic_save_raises(f, p)
        THEN [raised |-> "FileNotFoundError", caught |-> c, wrote |-> TRUE, fs |-> f]
        ELSE [raised |-> "", caught |-> c, wrote |-> TRUE, fs |-> atomic_write(f, p, n)]

\* setup_zsh_integration: the rc file is .zshrc under $ZDOTDIR, or under the
\* home directory when ZDOTDIR is not set.
zsh_rc_path(e) == path_join(environ_get(e, "ZDOTDIR", e.home), <<46, 122, 115, 104, 114, 99>>)

\* setup_bash_integration: the rc file is os.path.expanduser('~/.bashrc').
bash_rc_path(e) == e.home \o <<47, 46, 98, 97, 115, 104, 114, 99>>

rc_path_of(e, shell_name) == IF shell_name = zsh THEN zsh_rc_path(e) ELSE bash_rc_path(e)

(***************************************************************************)
(* atomic_symlink                                                          *)
(***************************************************************************)
\* str(n) for a natural number n.
RECURSIVE decimal(_)
decimal(n) == IF n < 10 THEN <<48 + n>> ELSE decimal(n \div 10) \o <<48 + (n % 10)>>

\* os.makedirs(d, exist_ok=True): d and its missing ancestors become directories.
RECURSIVE makedirs(_, _)
makedirs(f, d) ==
    IF d = <<>> \/ d = <<47>> \/ exists(f, d) THEN f
    ELSE put(makedirs(f, dirname(d)), d, Dir)

\* os.makedirs raises: d exists and is no directory.
makedirs_raises(f, d) == exists(f, d) /\ f[d].type # "dir"

\* tmpname = os.path.join(in_directory, f'{name}-{os.getpid()}-{time.monotonic()}')
symlink_tmpname(destination, in_directory, pid, now) ==
    path_join(in_directory,
              basename(destination) \o <<45>> \o decimal(pid) \o <<45>> \o decimal(now))

\* os.path.join(in_directory, name)
symlink_final(destination, in_directory) ==
    path_join(in_directory, basename(destination))

\* os.symlink(destination, tmpname) raises FileExistsError: tmpname exists.
symlink_raises(f, tmpname) == exists(f, tmpname)

\* os.replace(tmpname, final) raises an OSError: final is a directory.
replace_raises(f, final) == is_dir(f, final)

\* os.replace(src, dst): dst becomes what src was, src is gone.
replace(f, src, dst) == put(remove(f, src), dst, f[src])

\* The handler re-raising without removing the temporary symlink.
on_replace_error_keep_tmp(f, tmpname) == f

\* except OSError: os.unlink(tmpname); raise
on_replace_error(f, tmpname) == remove(f, tmpname)

\* atomic_symlink(destination, in_directory), start to end, in process pid at
\* time now: the exception it raises ("" for none), the handlers that caught
\* one, and the file system it leaves.
atomic_symlink_run(f, destination, in_directory, pid, now) ==
    LET f1 == makedirs(f, in_directory)
        tmpname == symlink_tmpname(destination, in_directory, pid, now)
        final == symlink_final(destination, in_directory)
        f2 == put(f1, tmpname, Link(destination))
    IN  IF makedirs_raises(f, in_directory)
        THEN [raised |-> "FileExistsError", caught |-> {}, fs |-> f]
        ELSE IF symlink_raises(f1, tmpname)
        THEN [raised |-> "FileExistsError", caught |-> {}, fs |-> f1]
        ELSE IF replace_raises(f2, final)
        THEN [raised |-> "IsADirectoryError",
              caught |-> {[site |-> "atomic_symlink", exc |-> "IsADirectoryError",
                           reraised |-> TRUE]},
              fs |-> on_replace_error(f2, tmpname)]
        ELSE [raised |-> "", caught |-> {}, fs |-> replace(f2, tmpname, final)]

\* setup_fish_integration: the paths it works on.
fish_base(e) ==
    path_join(environ_get(e, "XDG_CONFIG_HOME", e.home \o <<47, 46, 99, 111, 110, 102, 105, 103>>), <<102, 105, 115, 104>>)
fish_conf_d(e) == path_join(fish_base(e), <<99, 111, 110, 102, 46, 100>>)
fish_script(e) == path_join(e.shell_integration_dir, <<107, 105, 116, 116, 121, 46, 102, 105, 115, 104>>)
fish_completions(e) == path_join(path_join(fish_base(e), <<99, 111, 109, 112, 108, 101, 116, 105, 111, 110, 115>>), <<107, 105, 116, 116, 121, 46, 102, 105, 115, 104>>)

(***************************************************************************)
(* Spec: repeated runs of setup_integration on one rc file.                *)
(***************************************************************************)
\* The lines the initial rc file is made of.
LineKinds ==
    { <<>>,                      \* an empty line
      <<104, 105>>,              \* "hi"
      BEGIN_MARKER,              \* a begin-marker line
      END_MARKER,                \* an end-marker line
      BEGIN_MARKER \o <<120>>,   \* a begin marker with a trailing "x"
      END_MARKER \o <<120>>,     \* an end marker with a trailing "x"
      <<233, 13, 98, 32>> }      \* e-acute, "\r", "b" and a trailing space

RECURSIVE join_lines(_, _)
join_lines(ls, i) ==
    IF i > Len(ls) THEN <<>> ELSE ls[i] \o <<10>> \o join_lines(ls, i + 1)

\* Every text of at most MaxLines lines, with or without the final newline.
InitialTexts ==
    LET whole == {join_lines(ls, 1) :
                    ls \in UNION {[1..k -> LineKinds] : k \in 0..MaxLines}}
    IN  whole \cup {SubSeq(t, 1, Len(t) - 1) : t \in whole \ {<<>>}}

Home == <<47, 104, 111, 109, 101, 47, 117>>                   \* "/home/u"

\* The environments of a run: the home directory, the install location of the
\* integration scripts (under the home directory or not), the environment
\* variables, and the shell.
Envs ==
    { [home |-> Home,
       shell_integration_dir |-> <<47, 104, 111, 109, 101, 47, 117, 47, 107>>,        \* "/home/u/k"
       environ |-> [v \in {} |-> <<>>],
       shell |-> bash],
      [home |-> Home,
       shell_integration_dir |-> <<47, 111, 112, 116, 47, 107>>,                    \* "/opt/k"
       environ |-> [v \in {"ZDOTDIR"} |-> <<47, 104, 111, 109, 101, 47, 117, 47, 122>>], \* "/home/u/z"
       shell |-> zsh] }

EmptyFs == [q \in {} |-> Dir]

\* The directories the rc files live in.
BaseFs(e) == put(put(EmptyFs, e.home, Dir), dirname(rc_path_of(e, e.shell)), Dir)
NoRun == [before |-> <<>>, existed |-> FALSE, wrote |-> FALSE]
Idle == <<>>
NoDispatch == [has_run |-> FALSE]

\* The rc file is a symbolic link to a file kept elsewhere.
Dotfile == <<47, 104, 111, 109, 101, 47, 117, 47, 100>>          \* "/home/u/d"
LinkedTexts == {<<>>, <<104, 105, 10>>}

Init ==
    /\ env \in Envs
    /\ \/ fs = BaseFs(env)
       \/ \E t \in InitialTexts :
             fs = put(BaseFs(env), rc_path_of(env, env.shell), File(encode_utf8(t)))
       \/ \E t \in LinkedTexts :
             fs = put(put(BaseFs(env), rc_path_of(env, env.shell), Link(Dotfile)),
                      Dotfile, File(encode_utf8(t)))
    /\ fs0 = fs
    /\ last = NoRun
    /\ runs = 0
    /\ procs = Idle
    /\ clock = 0
    /\ disp = NoDispatch

\* The bytes of the rc file, none when it does not exist.
rc_bytes(f, shell_name) ==
    LET p == realpath(f, rc_path_of(env, shell_name))
    IN  IF exists(f, p) THEN f[p].data ELSE <<>>

\* One run of setup_integration(env.shell, rc path of that shell).
SetupIntegration ==
    /\ runs < MaxRuns
    /\ LET rc_path == rc_path_of(env, env.shell)
           run == setup_integration(fs, env, env.shell, rc_path)
       IN  /\ fs' = run.fs
           /\ last' = [before |-> rc_bytes(fs, env.shell),
                       existed |-> exists(fs, realpath(fs, rc_path)),
                       wrote |-> run.wrote]
    /\ runs' = runs + 1
    /\ UNCHANGED <<fs0, env, procs, clock, disp>>

Next == SetupIntegration

Spec == Init /\ [][Next]_vars

(***************************************************************************)
(* Properties of setup_integration (checked under Spec).                   *)
(***************************************************************************)
\* The characters of the rc file as stored, and as the previous run found it.
rc_chars == decode_utf8(rc_bytes(fs, env.shell))
before_chars == decode_utf8(last.before)

\* The rc text as setup_integration reads it.
rc_text == safe_read(fs, realpath(fs, rc_path_of(env, env.shell)))

\* Line i.. of t is exactly the marker m.
is_marker_line(t, i, m) ==
    /\ at_line_start(t, i)
    /\ HasAt(t, i, m)
    /\ (i + Len(m) > Len(t) \/ t[i + Len(m)] = 10)

begin_lines(t) == {i \in 1..Len(t) : t[i] = 35 /\ is_marker_line(t, i, BEGIN_MARKER)}
end_lines(t) == {i \in 1..Len(t) : t[i] = 35 /\ is_marker_line(t, i, END_MARKER)}

\* t holds one block: one begin-marker line, then one end-marker line.
has_one_block(t) ==
    /\ Cardinality(begin_lines(t)) = 1
    /\ Cardinality(end_lines(t)) = 1
    /\ Min(begin_lines(t)) < Min(end_lines(t))

\* C1: running setup_integration twice in a row, the second run performs no
\* write and leaves the content the first run produced.
C1_SecondRunIsNoOp ==
    runs >= 2 => (~last.wrote /\ rc_bytes(fs, env.shell) = last.before)

\* C2: a run on a file holding one marker block removes exactly the block,
\* from its begin-marker line through its end-marker line; the text before
\* and after it is kept character for character, up to the trimming of
\* trailing whitespace, and is followed by the new block.
C2_ExactlyTheBlockIsReplaced ==
    (runs = 1 /\ has_one_block(before_chars)) =>
        LET b == Min(begin_lines(before_chars))
            e == Min(end_lines(before_chars))
            before_block == SubSeq(before_chars, 1, b - 1)
            after_block == Tail_from(before_chars, e + Len(END_MARKER))
        IN  rc_chars = rstrip(before_block \o after_block) \o <<10, 10>>
                       \o integration(env, env.shell)

\* C3: after any run the rc file holds exactly one begin-marker line,
\* followed by exactly one end-marker line.
C3_ExactlyOneBlock == runs >= 1 => has_one_block(rc_chars)

\* The number of newline characters just before position p of t.
newlines_before(t, p) ==
    Min({n \in 0..(p - 1) : p - 1 - n = 0 \/ t[p - 1 - n] # 10})

\* The begin-marker line of the block a run has just formatted: the last one.
new_block(t) == Max(begin_lines(t))

\* C8 as stated: in the new rc text exactly two newline characters stand
\* between the trimmed remainder and the begin-marker line of the new block.
C8_TwoNewlinesBeforeBeginMarker ==
    runs >= 1 =>
        LET t == rc_text
            bs == begin_lines(t)
        IN  bs # {} /\ newlines_before(t, Max(bs)) = 2

\* C8 amended: the new rc text ends with the formatted template, which
\* itself starts with a newline; two more newlines separate it from the
\* trimmed remainder, so three newline characters stand between the
\* remainder (which ends with no whitespace) and the begin-marker line.
C8_ThreeNewlinesBeforeBeginMarker ==
    runs >= 1 =>
        LET t == rc_text
            bs == begin_lines(t)
            p == Max(bs)
        IN  /\ bs # {}
            /\ newlines_before(t, p) = 3
            /\ p > 4 => t[p - 4] \notin Whitespace
            /\ Tail_from(t, p - 1) = integration(env, env.shell)

\* A run has replaced an old block that followed other text.
C8_Witness ==
    /\ runs = 1
    /\ last.wrote
    /\ has_one_block(before_chars)
    /\ Min(begin_lines(before_chars)) > 1
    /\ new_block(rc_text) > 4

(***************************************************************************)
(* SpecProc: two processes, each running setup_integration (bash) or       *)
(* atomic_symlink (the fish script into conf.d) step by step on the same   *)
(* file system; a process may crash between any two of its steps.          *)
(*                                                                         *)
(* atomic_save is stepped as: create a temporary file in the directory of  *)
(* the destination, write the data to it (in two pieces), rename it onto   *)
(* the destination.                                                        *)
(***************************************************************************)
Procs == {1, 2}

\* os.getpid(): processes alive together have different ids.
getpid(p) == p

ProcEnv ==
    [home |-> Home,
     shell_integration_dir |-> <<47, 104, 111, 109, 101, 47, 117, 47, 107>>,        \* "/home/u/k"
     environ |-> [v \in {} |-> <<>>],
     shell |-> bash]

IdleProc ==
    [op |-> "none", pc |-> "idle", dest |-> <<>>, text |-> <<>>, data |-> <<>>,
     tmp |-> <<>>]

\* The rc files the processes may start from.
ProcTexts ==
    { <<104, 105, 10>>,                                               \* "hi\n"
      <<233, 10>> \o BEGIN_MARKER \o <<10, 111, 10>> \o END_MARKER \o <<10>>, \* text, then a block
      BEGIN_MARKER \o <<10, 104, 105, 10>> }                          \* a begin marker, "hi"

\* What the processes may find under the final name of the symlink.
OldTarget == <<47, 111, 108, 100, 47, 107, 105, 116, 116, 121, 46, 102, 105, 115, 104>>                  \* "/old/kitty.fish"
ProcFishStates ==
    LET d == makedirs(put(EmptyFs, Home, Dir), fish_conf_d(ProcEnv))
        final == symlink_final(fish_script(ProcEnv), fish_conf_d(ProcEnv))
    IN  { put(EmptyFs, Home, Dir),          \* no conf.d yet
          d,                                \* conf.d, empty
          put(d, final, Link(OldTarget)),   \* a symlink from an earlier install
          put(d, final, File(<<104, 105, 10>>)),
          put(d, final, Dir) }

InitProc ==
    /\ env = ProcEnv
    /\ \E f \in ProcFishStates :
          \/ fs = f
          \/ \E t \in ProcTexts : fs = put(f, bash_rc_path(env), File(encode_utf8(t)))
    /\ fs0 = fs
    /\ last = NoRun
    /\ runs = 0
    /\ procs = [p \in Procs |-> IdleProc]
    /\ clock = 0
    /\ disp = NoDispatch

\* The temporary file of atomic_save: in the directory of the destination,
\* with a name no other process uses.
save_tmpname(dest, pid) == dest \o <<46>> \o decimal(pid) \o <<46, 116, 109, 112>>  \* ".<pid>.tmp"

\* The first piece of the data written to the temporary file.
first_piece(data) == SubSeq(data, 1, (Len(data) + 1) \div 2)

\* setup_integration up to the decision to write: read the rc file, compute
\* newrc, and enter atomic_write unless newrc = rc.
BeginSetup(p) ==
    /\ procs[p].pc = "idle"
    /\ LET dest == realpath(fs, bash_rc_path(env))
           rc == safe_read(fs, dest)
           n == newrc(env, bash, rc)
       IN  procs' = [procs EXCEPT ![p] =
               IF n = rc
               THEN [IdleProc EXCEPT !.op = "setup", !.pc = "done", !.dest = dest]
               ELSE [IdleProc EXCEPT !.op = "setup", !.pc = "create", !.dest = dest,
                                     !.text = n, !.data = atomic_write_data(n)]]
    /\ UNCHANGED <<fs, fs0, env, last, runs, clock, disp>>

\* atomic_save: create the temporary file.
CreateTemp(p) ==
    /\ procs[p].pc = "create"
    /\ LET tmp == save_tmpname(procs[p].dest, getpid(p))
       IN  IF exists(fs, tmp)
           THEN /\ procs' = [procs EXCEPT ![p].pc = "collided"]
                /\ fs' = fs
           ELSE /\ procs' = [procs EXCEPT ![p].pc = "fill", ![p].tmp = tmp]
                /\ fs' = put(fs, tmp, File(<<>>))
    /\ UNCHANGED <<fs0, env, last, runs, clock, disp>>

\* atomic_save: write the next piece of the data to the temporary file.
WritePiece(p) ==
    /\ procs[p].pc = "fill"
    /\ LET written == fs[procs[p].tmp].data
           next == IF Len(written) < Len(first_piece(procs[p].data))
                   THEN first_piece(procs[p].data) ELSE procs[p].data
       IN  /\ fs' = put(fs, procs[p].tmp, File(next))
           /\ procs' = [procs EXCEPT ![p].pc =
                           IF next = procs[p].data THEN "rename" ELSE "fill"]
    /\ UNCHANGED <<fs0, env, last, runs, clock, disp>>

\* atomic_save: rename the temporary file onto the destination.
Rename(p) ==
    /\ procs[p].pc = "rename"
    /\ fs' = replace(fs, procs[p].tmp, procs[p].dest)
    /\ procs' = [procs EXCEPT ![p].pc = "done"]
    /\ UNCHANGED <<fs0, env, last, runs, clock, disp>>

\* atomic_symlink: os.makedirs(in_directory, exist_ok=True)
BeginSymlink(p) ==
    /\ procs[p].pc = "idle"
    /\ fs' = makedirs(fs, fish_conf_d(env))
    /\ procs' = [procs EXCEPT ![p] =
           [IdleProc EXCEPT !.op = "symlink", !.pc = "symlink",
                            !.dest = symlink_final(fish_script(env), fish_conf_d(env))]]
    /\ UNCHANGED <<fs0, env, last, runs, clock, disp>>

\* atomic_symlink: read the clock, os.symlink(destination, tmpname)
MakeSymlink(p) ==
    /\ procs[p].pc = "symlink"
    /\ \E now \in {clock, clock + 1} :
          /\ now <= MaxClock
          /\ clock' = now
          /\ LET tmp == symlink_tmpname(fish_script(env), fish_conf_d(env), getpid(p), now)
             IN  IF symlink_raises(fs, tmp)
                 THEN /\ procs' = [procs EXCEPT ![p].pc = "collided"]
                      /\ fs' = fs
                 ELSE /\ procs' = [procs EXCEPT ![p].pc = "replace", ![p].tmp = tmp]
                      /\ fs' = put(fs, tmp, Link(fish_script(env)))
    /\ UNCHANGED <<fs0, env, last, runs, disp>>

\* atomic_symlink: os.replace(tmpname, final), or the OSError it raises.
Replace(p) ==
    /\ procs[p].pc = "replace"
    /\ IF replace_raises(fs, procs[p].dest)
       THEN /\ procs' = [procs EXCEPT ![p].pc = "except"]
            /\ fs' = fs
       ELSE /\ procs' = [procs EXCEPT ![p].pc = "done"]
            /\ fs' = replace(fs, procs[p].tmp, procs[p].dest)
    /\ UNCHANGED <<fs0, env, last, runs, clock, disp>>

\* atomic_symlink: except OSError: os.unlink(tmpname); raise
HandleReplaceError(p) ==
    /\ procs[p].pc = "except"
    /\ fs' = on_replace_error(fs, procs[p].tmp)
    /\ procs' = [procs EXCEPT ![p].pc = "raised"]
    /\ UNCHANGED <<fs0, env, last, runs, clock, disp>>

\* The process is killed (or the machine stops) in the middle of its work.
Crash(p) ==
    /\ procs[p].pc \in {"create", "fill", "rename", "symlink", "replace", "except"}
    /\ procs' = [procs EXCEPT ![p].pc = "crashed"]
    /\ UNCHANGED <<fs, fs0, env, last, runs, clock, disp>>

NextProc ==
    \E p \in Procs :
        \/ BeginSetup(p)
        \/ CreateTemp(p)
        \/ WritePiece(p)
        \/ Rename(p)
        \/ BeginSymlink(p)
        \/ MakeSymlink(p)
        \/ Replace(p)
        \/ HandleReplaceError(p)
        \/ Crash(p)

SpecProc == InitProc /\ [][NextProc]_vars

(***************************************************************************)
(* Properties of atomic_write and atomic_symlink (checked under SpecProc). *)
(***************************************************************************)
NoEntry == [type |-> "none", data |-> <<>>, target |-> <<>>]

\* What a reader finds at path p.
entry(f, p) == IF exists(f, p) THEN f[p] ELSE NoEntry

\* C4: the destination of atomic_write changes only by the rename of a
\* process whose temporary file holds all of its data, and then holds exactly
\* the UTF-8 encoding of the text that process was writing; no other step, a
\* crash included, changes what a reader of the destination sees.
C4_AtomicWrite ==
    [][LET d == bash_rc_path(env)
       IN  entry(fs', d) # entry(fs, d) =>
              \E p \in Procs :
                 /\ procs[p].pc = "rename"
                 /\ procs'[p].pc = "done"
                 /\ procs[p].dest = d
                 /\ fs[procs[p].tmp] = File(encode_utf8(procs[p].text))
                 /\ entry(fs', d) = File(encode_utf8(procs[p].text))]_vars

\* A process crashed with its temporary file partly written, and the
\* destination is as it was at the start.
C4_Witness ==
    \E p \in Procs :
        /\ procs[p].op = "setup"
        /\ procs[p].pc = "crashed"
        /\ exists(fs, procs[p].tmp)
        /\ fs[procs[p].tmp].data # <<>>
        /\ fs[procs[p].tmp].data # procs[p].data
        /\ entry(fs, procs[p].dest) = entry(fs0, procs[p].dest)

\* C9: whatever the interleaving, temporary names never collide, the rc file
\* is never a partial or mixed file, and once the processes have finished the
\* rc file and the symlink are what one run alone would have left.
C9_ConcurrentRunsEndAsOneRun ==
    LET d == bash_rc_path(env)
        final == symlink_final(fish_script(env), fish_conf_d(env))
        setups == {p \in Procs : procs[p].op = "setup"}
        links == {p \in Procs : procs[p].op = "symlink"}
    IN  /\ \A p \in Procs : procs[p].pc # "collided"
        /\ entry(fs, d) \in
              {entry(fs0, d)} \cup {File(procs[p].data) : p \in setups}
        /\ (setups # {} /\ \A p \in setups : procs[p].pc = "done") =>
              entry(fs, d) = entry(setup_integration(fs0, env, bash, d).fs, d)
        /\ (links # {} /\ \A p \in links : procs[p].pc \in {"done", "raised"}) =>
              entry(fs, final) =
                 entry(atomic_symlink_run(fs0, fish_script(env), fish_conf_d(env),
                                          getpid(1), 0).fs, final)

\* C10: when the rename fails, the temporary symlink is gone by the time the
\* error reaches the caller and the failing call has left the entry under the
\* final name as it was; when it succeeds, the final name is a symlink to the
\* target; either way no temporary symlink of the call remains.
C10_SymlinkFailureHandling ==
    /\ [](\A p \in Procs :
            (procs[p].op = "symlink" /\ procs[p].pc \in {"raised", "done"}) =>
                ~exists(fs, procs[p].tmp))
    /\ [][\A p \in Procs :
            /\ (procs[p].pc = "replace" /\ procs'[p].pc = "done") =>
                  entry(fs', procs[p].dest) = Link(fish_script(env))
            /\ (procs[p].pc \in {"replace", "except"}
                  /\ procs'[p].pc \in {"except", "raised"}) =>
                  entry(fs', procs[p].dest) = entry(fs, procs[p].dest)]_vars

\* A rename onto a directory failed and the error has reached the caller.
C10_Witness ==
    \E p \in Procs :
        /\ procs[p].op = "symlink"
        /\ procs[p].pc = "raised"
        /\ procs[p].tmp # <<>>
        /\ is_dir(fs, procs[p].dest)

(***************************************************************************)
(* The per-shell routines and the dispatcher.                              *)
(***************************************************************************)
\* setup_zsh_integration()
setup_zsh_integration(f, e) == setup_integration(f, e, zsh, zsh_rc_path(e))

\* setup_bash_integration()
setup_bash_integration(f, e) == setup_integration(f, e, bash, bash_rc_path(e))

\* completion_scripts['fish2'], the expected content of the completion file.
completion_scripts_fish2 == <<99, 111, 109, 112, 108, 101, 116, 101, 32, 107, 105, 116, 116, 121, 10>>  \* "complete kitty\n"

\* setup_fish_integration() after atomic_symlink returned, leaving file system
\* f and having caught c: the completion file, written when its content differs.
write_fish_completions(f, e, c) ==
    LET path == fish_completions(e)
    IN  IF read_raises(f, path)
        THEN [raised |-> "IsADirectoryError", caught |-> c, wrote |-> FALSE, fs |-> f]
        ELSE IF safe_read(f, path) = completion_scripts_fish2
        THEN [raised |-> "", caught |-> c \cup safe_read_caught(f, path),
              wrote |-> FALSE, fs |-> f]
        ELSE IF atomic_save_raises(f, path)
        THEN [raised |-> "FileNotFoundError", caught |-> c \cup safe_read_caught(f, path),
              wrote |-> TRUE, fs |-> f]
        ELSE [raised |-> "", caught |-> c \cup safe_read_caught(f, path), wrote |-> TRUE,
              fs |-> atomic_write(f, path, completion_scripts_fish2)]

\* setup_fish_integration() from the outcome s of its call of atomic_symlink.
after_atomic_symlink(s, e) ==
    IF s.raised # ""
    THEN [raised |-> s.raised, caught |-> s.caught, wrote |-> FALSE, fs |-> s.fs]
    ELSE write_fish_completions(s.fs, e, s.caught)

\* setup_fish_integration(): the symlink, then the completion file.
setup_fish_integration(f, e, pid, now) ==
    after_atomic_symlink(
        atomic_symlink_run(f, fish_script(e), fish_conf_d(e), pid, now), e)

\* SUPPORTED_SHELLS: the routine registered for each shell name.
SUPPORTED_SHELLS ==
    [n \in {zsh, bash, fish} |->
        IF n = zsh THEN "setup_zsh_integration"
        ELSE IF n = bash THEN "setup_bash_integration"
        ELSE "setup_fish_integration"]

\* func()
call_routine(func, f, e, pid, now) ==
    IF func = "setup_zsh_integration" THEN setup_zsh_integration(f, e)
    ELSE IF func = "setup_bash_integration" THEN setup_bash_integration(f, e)
    ELSE setup_fish_integration(f, e, pid, now)

\* str.lower() (ASCII and Latin-1 capitals).
lower(s) ==
    [i \in 1..Len(s) |->
        IF s[i] \in 65..90 \/ (s[i] \in 192..222 /\ s[i] # 215) THEN s[i] + 32 ELSE s[i]]

\* s.split('.')[0]: what precedes the first "."
before_first_dot(s) ==
    LET dots == {i \in 1..Len(s) : s[i] = 46}
    IN  IF dots = {} THEN s ELSE SubSeq(s, 1, Min(dots) - 1)

\* get_supported_shell_name comparing the name as it is spelled.
get_supported_shell_name_case_sensitive(path) ==
    LET name == before_first_dot(basename(path))
    IN  IF name \in DOMAIN SUPPORTED_SHELLS THEN name ELSE <<>>

\* get_supported_shell_name(path); the empty name stands for None.
get_supported_shell_name(path) ==
    LET name == lower(before_first_dot(basename(path)))
    IN  IF name \in DOMAIN SUPPORTED_SHELLS THEN name ELSE <<>>

\* str.split(): the words of s, separated by runs of whitespace.
split(s) ==
    {SubSeq(s, i, j) : <<i, j>> \in
        {w \in (1..Len(s)) \X (1..Len(s)) :
            /\ w[1] <= w[2]
            /\ \A k \in w[1]..w[2] : s[k] \notin Whitespace
            /\ w[1] = 1 \/ s[w[1] - 1] \in Whitespace
            /\ w[2] = Len(s) \/ s[w[2] + 1] \in Whitespace}}

disabled == <<100, 105, 115, 97, 98, 108, 101, 100>>   \* "disabled"
no_rc == <<110, 111, 45, 114, 99>>                    \* "no-rc"
FailedMessage == <<70, 97, 105, 108, 101, 100, 32, 116, 111, 32, 115, 101, 116, 117, 112, 32, 115, 104, 101, 108, 108, 32, 105, 110, 116, 101, 103, 114, 97, 116, 105, 111, 110, 32, 102, 111, 114, 58, 32>>  \* "Failed to setup shell integration for: "

\* The dispatcher letting the exception of the routine through.
propagate_exception(result, shell) == [log |-> <<>>, escaped |-> result.raised]

\* try: func() / except Exception: traceback.print_exc(); log_error(...)
handle_exception(result, shell) ==
    [log |-> IF result.raised = "" THEN <<>>
             ELSE <<[trace |-> result.raised, message |-> FailedMessage \o shell]>>,
     escaped |-> ""]

NoResult(f) == [raised |-> "", caught |-> {}, wrote |-> FALSE, fs |-> f]

\* A call that returns before any routine is invoked.
Returned(f, ran) ==
    [ran |-> ran, shell |-> <<>>, invoked |-> "", result |-> NoResult(f), log |-> <<>>,
     escaped |-> ""]

\* try: func() / except Exception: ..., given the outcome of func().
after_routine(shell, func, result, h) ==
    [ran |-> TRUE, shell |-> shell, invoked |-> func, result |-> result, log |-> h.log,
     escaped |-> h.escaped]

\* func = SUPPORTED_SHELLS[shell]; try: func() except Exception: ...
invoke(shell, func, result) ==
    after_routine(shell, func, result, handle_exception(result, shell))

\* setup_shell_integration from the shell name on.
dispatch(shell, f, e, pid, now) ==
    IF shell = <<>> THEN Returned(f, TRUE)
    ELSE invoke(shell, SUPPORTED_SHELLS[shell],
                call_routine(SUPPORTED_SHELLS[shell], f, e, pid, now))

\* The body of setup_shell_integration with options e.opts: the shell it found,
\* the routine it invoked ("" for none), what the routine did, what was logged
\* and what exception reaches the caller.
setup_shell_integration(f, e, pid, now) ==
    IF e.opts.shell_integration = disabled \/ no_rc \in split(e.opts.shell_integration)
    THEN Returned(f, TRUE)
    ELSE dispatch(get_supported_shell_name(e.opts.resolved_shell), f, e, pid, now)

\* run_once: the wrapped function runs on the first call only.
run_once(d) == ~d.has_run

\* A call of the function without its decorator: the body runs every time.
call_undecorated(d, f, e, pid, now) == setup_shell_integration(f, e, pid, now)

\* A call of the decorated setup_shell_integration.
call_setup_shell_integration(d, f, e, pid, now) ==
    IF run_once(d) THEN setup_shell_integration(f, e, pid, now) ELSE Returned(f, FALSE)

(***************************************************************************)
(* SpecDispatch: calls of setup_shell_integration in one process.          *)
(***************************************************************************)
\* opts.shell_integration
Modes ==
    { <<101, 110, 97, 98, 108, 101, 100>>,                   \* "enabled"
      disabled,
      no_rc,
      <<110, 111, 45, 99, 117, 114, 115, 111, 114, 32, 110, 111, 45, 114, 99>>,  \* "no-cursor no-rc"
      <<110, 111, 45, 99, 117, 114, 115, 111, 114>>,          \* "no-cursor"
      <<110, 111, 45, 114, 99, 9, 110, 111, 45, 116, 105, 116, 108, 101>>,     \* "no-rc\tno-title"
      <<110, 111, 45, 114, 99, 115>> }                \* "no-rcs"

\* resolved_shell(opts)[0]
ShellPaths ==
    { <<47, 98, 105, 110, 47, 122, 115, 104>>,                        \* "/bin/zsh"
      <<47, 117, 115, 114, 47, 98, 105, 110, 47, 66, 65, 83, 72>>,      \* "/usr/bin/BASH"
      <<47, 98, 105, 110, 47, 102, 105, 115, 104, 46, 101, 120, 101>>,  \* "/bin/fish.exe"
      <<47, 98, 105, 110, 47, 115, 104>>,                           \* "/bin/sh"
      <<47, 111, 112, 116, 47, 122, 115, 104, 46, 100, 47, 100, 97, 115, 104>>,  \* "/opt/zsh.d/dash"
      <<47, 98, 105, 110, 47, 122, 115, 104, 45, 53, 46, 56>>,         \* "/bin/zsh-5.8"
      fish,
      <<47, 98, 105, 110, 47, 46, 122, 115, 104>> }                   \* "/bin/.zsh"

DispatchEnvs ==
    { [home |-> Home,
       shell_integration_dir |-> <<47, 111, 112, 116, 47, 107>>,
       environ |-> ev,
       shell |-> bash,
       opts |-> [shell_integration |-> m, resolved_shell |-> sp]] :
      ev \in { [v \in {} |-> <<>>],
               [v \in {"ZDOTDIR", "XDG_CONFIG_HOME"} |->
                   IF v = "ZDOTDIR" THEN <<47, 104, 111, 109, 101, 47, 117, 47, 122>>   \* "/home/u/z"
                   ELSE <<47, 104, 111, 109, 101, 47, 117, 47, 120>>] },                \* "/home/u/x"
      m \in Modes, sp \in ShellPaths }

\* What the rc files of bash and zsh are at the start.
RcStates(e) ==
    LET base == makedirs(put(EmptyFs, e.home, Dir), dirname(zsh_rc_path(e)))
    IN  { base,
          put(put(base, bash_rc_path(e), File(<<104, 105, 10>>)),
              zsh_rc_path(e), File(<<104, 105, 10>>)),
          put(put(base, bash_rc_path(e), Dir), zsh_rc_path(e), Dir) }

\* What the fish configuration is at the start, on top of f.
FishStates(e, f) ==
    LET final == symlink_final(fish_script(e), fish_conf_d(e))
        comp == makedirs(f, dirname(fish_completions(e)))
    IN  { f,                                       \* no fish directory at all
          comp,                                    \* completions/, empty
          put(put(makedirs(comp, fish_conf_d(e)), final, Link(fish_script(e))),
              fish_completions(e), File(encode_utf8(completion_scripts_fish2))),
          put(makedirs(f, fish_conf_d(e)), final, Dir) }

InitDispatch ==
    /\ env \in DispatchEnvs
    /\ \E r \in RcStates(env) : fs \in FishStates(env, r)
    /\ fs0 = fs
    /\ last = NoRun
    /\ runs = 0
    /\ procs = Idle
    /\ clock = 0
    /\ disp = [has_run |-> FALSE, calls |-> 0, bodies |-> 0, log |-> <<>>,
               escaped |-> "", caught |-> {}, invoked |-> "", raised |-> "",
               fs_changed |-> FALSE]

\* The dispatcher's state after a call with outcome c, with what the calls so
\* far have shown: the log, the exception that reached a caller, the handlers
\* that caught one, and for the last run of the body the routine invoked, the
\* exception it raised and whether it changed the file system.
after_call(d, f, c) ==
    [has_run |-> TRUE,
     calls |-> d.calls + 1,
     bodies |-> d.bodies + (IF c.ran THEN 1 ELSE 0),
     log |-> d.log \o c.log,
     escaped |-> IF c.escaped # "" THEN c.escaped ELSE d.escaped,
     caught |-> d.caught \cup c.result.caught
                \cup (IF c.log # <<>>
                      THEN {[site |-> "setup_shell_integration",
                             exc |-> c.result.raised, reraised |-> FALSE]}
                      ELSE {}),
     invoked |-> IF c.ran THEN c.invoked ELSE d.invoked,
     raised |-> IF c.ran THEN c.result.raised ELSE d.raised,
     fs_changed |-> IF c.ran THEN c.result.fs # f ELSE d.fs_changed]

\* One call of setup_shell_integration().
Call ==
    /\ disp.calls < MaxCalls
    /\ \E c \in {call_setup_shell_integration(disp, fs, env, getpid(1), clock)} :
        /\ disp' = after_call(disp, fs, c)
        /\ fs' = c.result.fs
    /\ UNCHANGED <<fs0, env, last, runs, procs, clock>>

NextDispatch == Call

SpecDispatch == InitDispatch /\ [][NextDispatch]_vars

(***************************************************************************)
(* Properties of SpecDispatch.                                             *)
(***************************************************************************)
\* The flags of mode m, separated by whitespace, include word w.
has_flag(m, w) ==
    \E i \in 1..Len(m) :
        /\ HasAt(m, i, w)
        /\ i = 1 \/ m[i - 1] \in Whitespace
        /\ i + Len(w) > Len(m) \/ m[i + Len(w)] \in Whitespace

\* The base name of path sp, up to its first ".", is name n in any letter case.
stem_is(sp, n) ==
    \E i \in 0..Len(sp) :
        /\ i = 0 \/ sp[i] = 47
        /\ \A k \in (i + 1)..Len(sp) : sp[k] # 47
        /\ i + Len(n) <= Len(sp)
        /\ \A k \in 1..Len(n) : sp[i + k] = n[k] \/ sp[i + k] + 32 = n[k]
        /\ i + Len(n) = Len(sp) \/ sp[i + Len(n) + 1] = 46

\* The integration mode allows setup and the resolved shell is named n.
guard_passes(n) ==
    /\ env.opts.shell_integration # disabled
    /\ ~has_flag(env.opts.shell_integration, no_rc)
    /\ stem_is(env.opts.resolved_shell, n)

C6_RunOnce ==
    /\ [](disp.bodies <= 1)
    /\ [][disp.has_run =>
            /\ fs' = fs
            /\ disp'.bodies = disp.bodies
            /\ disp'.log = disp.log
            /\ disp'.escaped = disp.escaped]_vars

\* A second call was made after a first one that changed the file system.
C6_Witness ==
    /\ disp.calls >= 2
    /\ disp.bodies = 1
    /\ disp.fs_changed
    /\ fs # fs0

\* C7: once the body has run, the routine registered for zsh, bash or fish was
\* invoked exactly when the mode is not "disabled", its flags do not include
\* "no-rc" and the base name of the resolved shell, lower-cased and cut at its
\* first ".", is that name; when no routine was invoked the file system is
\* unchanged and no error was raised, logged or passed to the caller.
C7_DispatcherGuard ==
    disp.bodies >= 1 =>
        /\ disp.invoked = "setup_zsh_integration" <=> guard_passes(zsh)
        /\ disp.invoked = "setup_bash_integration" <=> guard_passes(bash)
        /\ disp.invoked = "setup_fish_integration" <=> guard_passes(fish)
        /\ disp.invoked = "" =>
            /\ ~disp.fs_changed
            /\ fs = fs0
            /\ disp.raised = ""
            /\ disp.escaped = ""
            /\ disp.log = <<>>

\* The bash routine was invoked for a shell whose name is spelled in capitals,
\* and it changed the file system.
C7_Witness ==
    /\ disp.invoked = "setup_bash_integration"
    /\ env.opts.resolved_shell = <<47, 117, 115, 114, 47, 98, 105, 110, 47, 66, 65, 83, 72>>
    /\ disp.fs_changed

====
